---- MODULE Spec2Model ----
(***************************************************************************)
(* aw-watcher.nvim: the heartbeat pipeline of src/lib.rs and               *)
(* src/handler.rs.                                                         *)
(*                                                                         *)
(* Threads:                                                                *)
(*   - the interactive (editor) thread runs every editor callback:         *)
(*     trigger_heartbeat, start_watcher (VimEnter and AWStart), AWStop,    *)
(*     AWStatus and the AsyncHandle callback of entry();                   *)
(*   - the worker thread runs run_handler;                                 *)
(*   - start_watcher and AWStop each spawn one detached thread that        *)
(*     writes GLOBALS.connected.                                           *)
(*                                                                         *)
(* Time is counted in ticks of half a second (Second == 2 ticks).  GLOBALS  *)
(* is a lazy_static: its last_heartbeat is the instant of its first use,   *)
(* which is tick 0 here.                                                   *)
(*                                                                         *)
(* The channel ends held by the editor callbacks (tx, error_rx) live as     *)
(* long as the editor does; the specification SpecShutdown adds the exit   *)
(* of the main thread (handler.rs:47), which drops them.                   *)
(*                                                                         *)
(* Not modelled: a poisoned GLOBALS lock (no thread panics while holding   *)
(* it) and error_handle.send() failing (the expect of handler.rs:50).      *)
(***************************************************************************)
EXTENDS Integers, Sequences, FiniteSets, TLC

\* ---- bounds ----
MaxTime == 6
MaxEvents == 2
MaxThreads == 2

\* ---- values ----
Second == 2
Files == {"a", "b"}
Projects == {"p"}
Languages == {"lua", "vim"}
ResolveError == "<error>"
FileResults == Files \cup {ResolveError}
ProjectResults == Projects \cup {ResolveError}
LanguageResults == Languages \cup {ResolveError}

VARIABLES
    \* GLOBALS (lib.rs:20-26)
    connected, last_heartbeat, last_file, last_project, last_language,
    \* the clock read by Instant::now()
    now,
    \* the events in the channel of start_event_handler, oldest first, and
    \* every event trigger_heartbeat has sent into it so far
    event_channel, sent,
    \* run_handler: where the worker is, the events it has called heartbeat()
    \* for, and the results of the calls that have returned (TRUE: Ok)
    wstate, attempted, results,
    \* the error channel of entry() (an error is the number of the failed
    \* call), whether the AsyncHandle has been signalled and not yet run, and
    \* the errors whose print the callback has scheduled
    error_channel, error_handle, notified,
    \* the editor thread: idle, inside the AsyncHandle callback, or exited
    \* (its ends of the two channels dropped); what its
    \* last trigger_heartbeat, start_watcher or AWStatus callback did (the
    \* return path taken, the result of the create_bucket_simple call it
    \* made, the line printed)
    istate, outcome,
    \* the spawned threads that have not run yet, and the latest of the
    \* AWStart/VimEnter/AWStop commands
    spawned, last_command,
    \* the signals of the C1 scenario handled so far
    scenario,
    \* history: whether a create_bucket_simple call has returned Ok so far
    bucket_created

globals == <<connected, last_heartbeat, last_file, last_project, last_language>>
triple == <<last_file, last_project, last_language>>
worker == <<wstate, attempted, results>>
errsig == <<error_channel, error_handle, notified>>
vars == <<connected, last_heartbeat, last_file, last_project, last_language,
          now, event_channel, sent, wstate, attempted, results,
          error_channel, error_handle, notified, istate, outcome,
          spawned, last_command, scenario, bucket_created>>

\* Event of lib.rs: id None, duration 0, timestamp now, data {file, project, language}
Event(t, file, project, language) ==
    [timestamp |-> t, file |-> file, project |-> project, language |-> language]

EventTriple(e) == <<e.file, e.project, e.language>>

\* Instant::saturating_duration_since
saturating_duration_since(later, earlier) ==
    IF later >= earlier THEN later - earlier ELSE 0

\* ---- the C1 scenario observer ----
ScenOffsets == <<0, 1, 3, 4>>
ScenFiles == <<"a", "a", "a", "b">>
ScenProject == "p"
ScenLanguage == "lua"
NoScenario == [t0 |-> 0, outcomes |-> <<>>]

\* The signals of the scenario seen so far, as the outcomes of the
\* trigger_heartbeat invocations that handled them.  A signal continues the
\* scenario when it is the next one of it (time, file, constant project and
\* language, connected), starts it when connected holds, the last heartbeat
\* is more than one second old and the triple is new, and ends it otherwise.
Observe(file, project, language, out) ==
    LET k == Len(scenario.outcomes)
        inScen == /\ connected
                  /\ project = ScenProject
                  /\ language = ScenLanguage
    IN  IF /\ inScen /\ k >= 1 /\ k < 4
           /\ now = scenario.t0 + ScenOffsets[k + 1]
           /\ file = ScenFiles[k + 1]
        THEN [scenario EXCEPT !.outcomes = Append(@, out)]
        ELSE IF /\ inScen
                /\ file = ScenFiles[1]
                /\ saturating_duration_since(now, last_heartbeat) > Second
                /\ <<file, project, language>> # triple
             THEN [t0 |-> now, outcomes |-> <<out>>]
             ELSE NoScenario

Init ==
    /\ connected = FALSE
    /\ last_heartbeat = 0
    /\ last_file = ""
    /\ last_project = ""
    /\ last_language = ""
    /\ now = 0
    /\ event_channel = <<>>
    /\ sent = <<>>
    /\ wstate = "Idle"
    /\ attempted = <<>>
    /\ results = <<>>
    /\ error_channel = <<>>
    /\ error_handle = FALSE
    /\ notified = <<>>
    /\ istate = "idle"
    /\ outcome = "none"
    /\ spawned = [start_ok |-> 0, start_err |-> 0, stop |-> 0]
    /\ last_command = "none"
    /\ scenario = NoScenario
    /\ bucket_created = FALSE

\* the monotonic clock advances (up to the horizon of the run)
Tick(horizon) ==
    /\ now < horizon
    /\ now' = now + 1
    /\ UNCHANGED <<globals, event_channel, sent, worker, errsig, istate, outcome,
                   spawned, last_command, scenario, bucket_created>>

\* Outcome without the connected check of lib.rs:133
Outcome_NoConnectedCheck(file, project, language) ==
    IF saturating_duration_since(now, last_heartbeat) <= Second THEN "too_soon"
    ELSE IF ResolveError \in {file, project, language} THEN "error"
    ELSE IF file = last_file /\ language = last_language /\ project = last_project
         THEN "unchanged"
    ELSE "emit"

\* Outcome with the time check of lib.rs:141 written < instead of <=
Outcome_StrictTimeCheck(file, project, language) ==
    IF ~connected THEN "disconnected"
    ELSE IF saturating_duration_since(now, last_heartbeat) < Second THEN "too_soon"
    ELSE IF ResolveError \in {file, project, language} THEN "error"
    ELSE IF file = last_file /\ language = last_language /\ project = last_project
         THEN "unchanged"
    ELSE "emit"

\* Outcome with data_unchanged of lib.rs:171 comparing project to last_file
Outcome_WrongFieldCompared(file, project, language) ==
    IF ~connected THEN "disconnected"
    ELSE IF saturating_duration_since(now, last_heartbeat) <= Second THEN "too_soon"
    ELSE IF ResolveError \in {file, project, language} THEN "error"
    ELSE IF file = last_file /\ language = last_language /\ project = last_file
         THEN "unchanged"
    ELSE "emit"

\* Outcome with the resolution of lib.rs:147-169 moved before the checks
Outcome_ResolvesFirst(file, project, language) ==
    IF ResolveError \in {file, project, language} THEN "error"
    ELSE IF ~connected THEN "disconnected"
    ELSE IF saturating_duration_since(now, last_heartbeat) <= Second THEN "too_soon"
    ELSE IF file = last_file /\ language = last_language /\ project = last_project
         THEN "unchanged"
    ELSE "emit"

\* Outcome with a failed resolution standing for an empty string instead of
\* being returned by the ? of lib.rs:147-169
Outcome_SwallowsResolveError(file, project, language) ==
    IF ~connected THEN "disconnected"
    ELSE IF saturating_duration_since(now, last_heartbeat) <= Second THEN "too_soon"
    ELSE IF file = last_file /\ language = last_language /\ project = last_project
         THEN "unchanged"
    ELSE "emit"

\* The return path trigger_heartbeat takes for a signal whose host queries
\* give file, project and language (ResolveError: the query fails).
Outcome(file, project, language) ==
    IF ~connected THEN "disconnected"
    ELSE IF saturating_duration_since(now, last_heartbeat) <= Second THEN "too_soon"
    ELSE IF ResolveError \in {file, project, language} THEN "error"
    ELSE IF file = last_file /\ language = last_language /\ project = last_project
         THEN "unchanged"
    ELSE "emit"

\* trigger_heartbeat without the writes of lib.rs:179-181
trigger_heartbeat_NoTripleUpdate(file, project, language) ==
    LET out == Outcome(file, project, language) IN
    /\ istate = "idle"
    /\ Len(sent) < MaxEvents
    /\ outcome' = out
    /\ scenario' = Observe(file, project, language, out)
    /\ last_heartbeat' = IF out \in {"disconnected", "too_soon"}
                         THEN last_heartbeat ELSE now
    /\ IF out = "emit"
       THEN /\ event_channel' = Append(event_channel, Event(now, file, project, language))
            /\ sent' = Append(sent, Event(now, file, project, language))
       ELSE UNCHANGED <<event_channel, sent>>
    /\ UNCHANGED <<connected, last_file, last_project, last_language,
                   now, worker, errsig, istate, spawned, last_command,
                   bucket_created>>

\* trigger_heartbeat: the body runs with GLOBALS locked from its first line to
\* its return, so it is one step for every other user of GLOBALS.
trigger_heartbeat(file, project, language) ==
    LET out == Outcome(file, project, language) IN
    /\ istate = "idle"
    /\ Len(sent) < MaxEvents
    /\ outcome' = out
    /\ scenario' = Observe(file, project, language, out)
    /\ last_heartbeat' = IF out \in {"disconnected", "too_soon"}
                         THEN last_heartbeat ELSE now
    /\ IF out = "emit"
       THEN /\ last_file' = file
            /\ last_project' = project
            /\ last_language' = language
            /\ event_channel' = Append(event_channel, Event(now, file, project, language))
            /\ sent' = Append(sent, Event(now, file, project, language))
       ELSE UNCHANGED <<last_file, last_project, last_language, event_channel, sent>>
    /\ UNCHANGED <<connected, now, worker, errsig, istate,
                   spawned, last_command, bucket_created>>

SpawnedCount == spawned.start_ok + spawned.start_err + spawned.stop

\* start_watcher (VimEnter autocmd and AWStart): the callback itself calls
\* create_bucket_simple, spawns a detached thread that will write the result
\* into GLOBALS.connected, and returns the result of the call
start_watcher(ok) ==
    /\ istate = "idle"
    /\ SpawnedCount < MaxThreads
    /\ spawned' = IF ok THEN [spawned EXCEPT !.start_ok = @ + 1]
                        ELSE [spawned EXCEPT !.start_err = @ + 1]
    /\ last_command' = IF ok THEN "start_ok" ELSE "start_err"
    /\ outcome' = IF ok THEN "create_bucket: ok" ELSE "create_bucket: err"
    /\ bucket_created' = (bucket_created \/ ok)
    /\ UNCHANGED <<globals, now, event_channel, sent, worker, errsig, istate,
                   scenario>>

\* the thread spawned by start_watcher writing true whatever the result
start_thread_IgnoresResult(ok) ==
    /\ IF ok THEN spawned.start_ok > 0 ELSE spawned.start_err > 0
    /\ spawned' = IF ok THEN [spawned EXCEPT !.start_ok = @ - 1]
                        ELSE [spawned EXCEPT !.start_err = @ - 1]
    /\ connected' = TRUE
    /\ UNCHANGED <<last_heartbeat, last_file, last_project, last_language,
                   now, event_channel, sent, worker, errsig, istate, outcome,
                   last_command, scenario, bucket_created>>

\* the thread spawned by start_watcher runs
start_thread(ok) ==
    /\ IF ok THEN spawned.start_ok > 0 ELSE spawned.start_err > 0
    /\ spawned' = IF ok THEN [spawned EXCEPT !.start_ok = @ - 1]
                        ELSE [spawned EXCEPT !.start_err = @ - 1]
    /\ connected' = ok
    /\ UNCHANGED <<last_heartbeat, last_file, last_project, last_language,
                   now, event_channel, sent, worker, errsig, istate, outcome,
                   last_command, scenario, bucket_created>>

\* AWStop: spawns a detached thread that will write connected = false
stop_command ==
    /\ istate = "idle"
    /\ SpawnedCount < MaxThreads
    /\ spawned' = [spawned EXCEPT !.stop = @ + 1]
    /\ last_command' = "stop"
    /\ UNCHANGED <<globals, now, event_channel, sent, worker, errsig, istate, outcome,
                   scenario, bucket_created>>

\* the AWStop thread also discarding the events still queued
stop_thread_DrainsChannel ==
    /\ spawned.stop > 0
    /\ spawned' = [spawned EXCEPT !.stop = @ - 1]
    /\ connected' = FALSE
    /\ event_channel' = <<>>
    /\ UNCHANGED <<last_heartbeat, last_file, last_project, last_language,
                   now, sent, worker, errsig, istate, outcome,
                   last_command, scenario, bucket_created>>

\* the thread spawned by AWStop runs
stop_thread ==
    /\ spawned.stop > 0
    /\ spawned' = [spawned EXCEPT !.stop = @ - 1]
    /\ connected' = FALSE
    /\ UNCHANGED <<last_heartbeat, last_file, last_project, last_language,
                   now, event_channel, sent, worker, errsig, istate, outcome,
                   last_command, scenario, bucket_created>>

\* AWStatus: prints GLOBALS.connected
status_command ==
    /\ istate = "idle"
    /\ outcome' = IF connected THEN "running: true" ELSE "running: false"
    /\ UNCHANGED <<globals, now, event_channel, sent, worker, errsig, istate,
                   spawned, last_command, scenario, bucket_created>>

\* handler_recv taking the newest queued event instead of the oldest
handler_recv_Lifo ==
    /\ wstate = "Idle"
    /\ event_channel # <<>>
    /\ attempted' = Append(attempted, event_channel[Len(event_channel)])
    /\ event_channel' = SubSeq(event_channel, 1, Len(event_channel) - 1)
    /\ wstate' = "Delivering"
    /\ UNCHANGED <<globals, now, sent, results, errsig, istate, outcome,
                   spawned, last_command, scenario, bucket_created>>

\* run_handler: rx.recv() yields the next event and heartbeat() is called
handler_recv ==
    /\ wstate = "Idle"
    /\ event_channel # <<>>
    /\ attempted' = Append(attempted, Head(event_channel))
    /\ event_channel' = Tail(event_channel)
    /\ wstate' = "Delivering"
    /\ UNCHANGED <<globals, now, sent, results, errsig, istate, outcome,
                   spawned, last_command, scenario, bucket_created>>

\* handler_heartbeat leaving the loop on a delivery failure
handler_heartbeat_StopOnError(ok) ==
    /\ wstate = "Delivering"
    /\ results' = Append(results, ok)
    /\ wstate' = IF ok THEN "Idle" ELSE "Stopped"
    /\ UNCHANGED <<globals, now, event_channel, sent, attempted, errsig, istate,
                   outcome, spawned, last_command, scenario, bucket_created>>

\* handler_heartbeat clearing connected itself on a delivery failure
handler_heartbeat_ClearsConnected(ok) ==
    /\ wstate = "Delivering"
    /\ results' = Append(results, ok)
    /\ wstate' = IF ok THEN "Idle" ELSE "SignalingError"
    /\ connected' = (connected /\ ok)
    /\ UNCHANGED <<last_heartbeat, last_file, last_project, last_language,
                   now, event_channel, sent, attempted, errsig, istate,
                   outcome, spawned, last_command, scenario, bucket_created>>

\* run_handler: heartbeat() returns Ok or Err
handler_heartbeat(ok) ==
    /\ wstate = "Delivering"
    /\ results' = Append(results, ok)
    /\ wstate' = IF ok THEN "Idle" ELSE "SignalingError"
    /\ UNCHANGED <<globals, now, event_channel, sent, attempted, errsig, istate,
                   outcome, spawned, last_command, scenario, bucket_created>>

\* handler_error_send leaving the loop although the error was accepted
handler_error_send_Stops ==
    /\ wstate = "SignalingError"
    /\ istate # "exited"
    /\ error_channel' = Append(error_channel, Len(results))
    /\ wstate' = "Stopped"
    /\ UNCHANGED <<globals, now, event_channel, sent, attempted, results,
                   error_handle, notified, istate, outcome,
                   spawned, last_command, scenario, bucket_created>>

\* run_handler: error_channel.send(e), the receiver being alive
handler_error_send ==
    /\ wstate = "SignalingError"
    /\ istate # "exited"
    /\ error_channel' = Append(error_channel, Len(results))
    /\ wstate' = "Waking"
    /\ UNCHANGED <<globals, now, event_channel, sent, attempted, results,
                   error_handle, notified, istate, outcome,
                   spawned, last_command, scenario, bucket_created>>

\* run_handler: error_channel.send(e) fails, the receiver being dropped:
\* break
handler_error_send_closed ==
    /\ wstate = "SignalingError"
    /\ istate = "exited"
    /\ wstate' = "Stopped"
    /\ UNCHANGED <<globals, now, event_channel, sent, attempted, results, errsig,
                   istate, outcome, spawned, last_command, scenario,
                   bucket_created>>

\* run_handler: rx.recv() yields None, the channel being empty and every
\* sender dropped: the loop ends
handler_recv_closed ==
    /\ wstate = "Idle"
    /\ event_channel = <<>>
    /\ istate = "exited"
    /\ wstate' = "Stopped"
    /\ UNCHANGED <<globals, now, event_channel, sent, attempted, results, errsig,
                   istate, outcome, spawned, last_command, scenario,
                   bucket_created>>

\* run_handler: error_handle.send() wakes the editor loop (sends coalesce)
handler_wake ==
    /\ wstate = "Waking"
    /\ error_handle' = TRUE
    /\ wstate' = "Idle"
    /\ UNCHANGED <<globals, now, event_channel, sent, attempted, results,
                   error_channel, notified, istate, outcome,
                   spawned, last_command, scenario, bucket_created>>

\* the editor loop runs the AsyncHandle callback of entry()
callback_enter ==
    /\ istate = "idle"
    /\ error_handle
    /\ error_handle' = FALSE
    /\ istate' = "in_callback"
    /\ UNCHANGED <<globals, now, event_channel, sent, worker, error_channel, notified,
                   outcome, spawned, last_command, scenario, bucket_created>>

\* callback_recv without the write of lib.rs:66
callback_recv_KeepConnected ==
    /\ istate = "in_callback"
    /\ error_channel # <<>>
    /\ notified' = Append(notified, Head(error_channel))
    /\ error_channel' = Tail(error_channel)
    /\ UNCHANGED <<globals, now, event_channel, sent, worker, error_handle, istate,
                   outcome, spawned, last_command, scenario, bucket_created>>

\* the callback's loop: blocking_recv() yields an error, the print is
\* scheduled and connected is cleared.  With the error channel empty the
\* call blocks (the worker keeps its sender), so the callback stays here.
callback_recv ==
    /\ istate = "in_callback"
    /\ error_channel # <<>>
    /\ notified' = Append(notified, Head(error_channel))
    /\ error_channel' = Tail(error_channel)
    /\ connected' = FALSE
    /\ UNCHANGED <<last_heartbeat, last_file, last_project, last_language,
                   now, event_channel, sent, worker, error_handle, istate, outcome,
                   spawned, last_command, scenario, bucket_created>>

\* the main thread exits: the callbacks owning tx (lib.rs:108-118) and
\* error_rx (lib.rs:60-69) are gone, whatever the thread was doing
main_exit ==
    /\ istate # "exited"
    /\ istate' = "exited"
    /\ UNCHANGED <<globals, now, event_channel, sent, worker, errsig, outcome,
                   spawned, last_command, scenario, bucket_created>>

Interactive ==
    \/ \E f \in FileResults, p \in ProjectResults, l \in LanguageResults :
           trigger_heartbeat(f, p, l)
    \/ \E ok \in BOOLEAN : start_watcher(ok)
    \/ stop_command
    \/ status_command
    \/ callback_enter
    \/ callback_recv

Worker ==
    \/ handler_recv
    \/ \E ok \in BOOLEAN : handler_heartbeat(ok)
    \/ handler_error_send
    \/ handler_wake

Threads ==
    \/ \E ok \in BOOLEAN : start_thread(ok)
    \/ stop_thread

Next == Tick(MaxTime) \/ Interactive \/ Worker \/ Threads

Spec == Init /\ [][Next]_vars

\* ---- the run long enough for the four signals of the scenario ----
\* (a first signal more than one second after Init, the last 4 ticks later)
ScenarioTime == Second + 1 + ScenOffsets[4]

NextScenario == Tick(ScenarioTime) \/ Interactive \/ Worker \/ Threads

SpecScenario == Init /\ [][NextScenario]_vars

\* ---- the pipeline under fair scheduling ----
\* The worker thread and the editor loop keep running: a receive, a
\* heartbeat call (the client returns), the error send, the wake-up and the
\* callback each happen once they can.  The signals are those of a user
\* editing files of one project and language, every host query succeeding.
LiveInteractive ==
    \/ \E f \in Files : trigger_heartbeat(f, ScenProject, ScenLanguage)
    \/ \E ok \in BOOLEAN : start_watcher(ok)
    \/ stop_command
    \/ status_command
    \/ callback_enter
    \/ callback_recv

NextLive == Tick(MaxTime) \/ LiveInteractive \/ Worker \/ Threads

Fairness ==
    /\ WF_vars(handler_recv)
    /\ WF_vars(\E ok \in BOOLEAN : handler_heartbeat(ok))
    /\ WF_vars(handler_error_send)
    /\ WF_vars(handler_wake)
    /\ WF_vars(callback_enter)
    /\ WF_vars(callback_recv)

SpecLive == Init /\ [][NextLive]_vars /\ Fairness

\* ---- the pipeline when the editor exits ----
\* The signals are those of SpecLive; the main thread may exit at any point,
\* after which the worker drains the channel and stops.
WorkerShutdown ==
    \/ Worker
    \/ handler_recv_closed
    \/ handler_error_send_closed

NextShutdown ==
    Tick(MaxTime) \/ LiveInteractive \/ main_exit \/ WorkerShutdown \/ Threads

SpecShutdown == Init /\ [][NextShutdown]_vars

TypeOK ==
    /\ connected \in BOOLEAN
    /\ last_heartbeat \in 0..now
    /\ now \in 0..ScenarioTime + 1
    /\ Len(sent) <= MaxEvents
    /\ wstate \in {"Idle", "Delivering", "SignalingError", "Waking", "Stopped"}
    /\ istate \in {"idle", "in_callback", "exited"}
    /\ Len(results) <= Len(attempted)
    /\ spawned.start_ok + spawned.start_err + spawned.stop <= MaxThreads

Range(seq) == {seq[i] : i \in 1..Len(seq)}
Elapsed == saturating_duration_since(now, last_heartbeat)

\* ---------------------------------------------------------------- claims

\* C1: in the scenario (connected, last heartbeat more than 1 s old; signals
\* at t=0 file a, t=0.5 file a, t=1.5 file a, t=2.0 file b, project and
\* language constant) the first and the fourth signal enqueue an event and
\* the second and third are skipped.
ScenEmits == <<TRUE, FALSE, FALSE, TRUE>>
C1_ScenarioEmitsTwice ==
    \A k \in 1..Len(scenario.outcomes) :
        (scenario.outcomes[k] = "emit") = ScenEmits[k]

\* C2: no step taken while connected is false enqueues an event.
C2_NoEnqueueWhileDisconnected ==
    [][~connected => sent' = sent /\ Len(event_channel') <= Len(event_channel)]_vars

C2_Witness ==
    /\ outcome = "disconnected"
    /\ ~connected
    /\ Elapsed > Second
    /\ sent # <<>>

\* C3: a Status command run when the latest Start/Stop command is a failed
\* Start prints connected = false.
C3_StatusAfterFailedStart ==
    [][status_command /\ last_command = "start_err"
         => outcome' = "running: false"]_vars

\* C4: when the latest Start/Stop command is a Stop and no spawned thread is
\* left running, connected is false.
C4_StopLeavesDisconnected ==
    (last_command = "stop" /\ SpawnedCount = 0) => ~connected

\* C5: every delivery fault is eventually processed by the Error Signal
\* callback; the step that processes an error leaves connected false; no
\* step of the worker changes connected.
C5_FaultDisconnectsViaCallback ==
    /\ \A n \in 1..MaxEvents :
           (Len(results) >= n /\ ~results[n]) ~> (n \in Range(notified))
    /\ [][notified' # notified => ~connected']_vars
    /\ [][wstate' # wstate => connected' = connected]_vars

C5_Witness ==
    /\ notified = <<1>>
    /\ ~connected
    /\ Len(sent) = 2

\* C6: when the heartbeat call for event n failed and event n+1 was
\* enqueued, the worker eventually makes the heartbeat call for event n+1.
C6_FaultDoesNotBlockNext ==
    \A n \in 1..MaxEvents :
        (Len(results) >= n /\ ~results[n] /\ Len(sent) > n)
            ~> (Len(attempted) > n /\ attempted[n + 1] = sent[n + 1])

C6_Witness ==
    /\ Len(results) >= 1
    /\ ~results[1]
    /\ Len(attempted) = 2
    /\ attempted[2] = sent[2]

\* C7: the heartbeat calls made so far are a prefix of the events enqueued so
\* far, and the events not yet received are the rest, in the same order.
C7_AttemptsArePrefixOfSent ==
    /\ Len(attempted) <= Len(sent)
    /\ attempted = SubSeq(sent, 1, Len(attempted))
    /\ event_channel = SubSeq(sent, Len(attempted) + 1, Len(sent))
    /\ \A i, j \in 1..Len(sent) : i # j => sent[i] # sent[j]

C7_Witness ==
    /\ Len(attempted) = 2
    /\ Len(results) = 1
    /\ wstate = "Delivering"

\* C8: a signal handled while connected, more than 1 s after last_heartbeat,
\* with every resolution succeeding and a triple different from the last
\* recorded one, enqueues exactly one event carrying that triple, in the step
\* that records the triple and the time; and whenever an event has been
\* enqueued, Connection State holds the triple of the latest one and a
\* last_heartbeat not older than it.
C8_EmitUpdatesStateWithEnqueue ==
    /\ [][\A f \in Files, p \in Projects, l \in Languages :
            (/\ trigger_heartbeat(f, p, l)
             /\ connected
             /\ Elapsed > Second
             /\ <<f, p, l>> # triple)
            => /\ sent' = Append(sent, Event(now, f, p, l))
               /\ event_channel' = Append(event_channel, Event(now, f, p, l))
               /\ triple' = <<f, p, l>>
               /\ last_heartbeat' = now]_vars
    /\ [](sent # <<>> =>
            /\ triple = EventTriple(sent[Len(sent)])
            /\ last_heartbeat >= sent[Len(sent)].timestamp)

C8_Witness ==
    /\ outcome = "emit"
    /\ Len(sent) = 2
    /\ event_channel = sent
    /\ last_heartbeat = now

\* C9: two consecutively enqueued events are more than 1 s apart.
C9_EmitsMoreThanASecondApart ==
    \A i \in 1..(Len(sent) - 1) :
        sent[i + 1].timestamp - sent[i].timestamp > Second

C9_Witness ==
    /\ Len(sent) = 2
    /\ sent[2].timestamp - sent[1].timestamp = Second + 1

\* C10: a step that enqueues an event enqueues one whose triple differs from
\* the last recorded triple, and two consecutively enqueued events carry
\* different triples.
C10_NoEmitForUnchangedTriple ==
    /\ [][sent' # sent => EventTriple(sent'[Len(sent')]) # triple]_vars
    /\ [](\A i \in 1..(Len(sent) - 1) :
            EventTriple(sent[i + 1]) # EventTriple(sent[i]))

C10_Witness ==
    /\ outcome = "unchanged"
    /\ Elapsed = 0
    /\ sent # <<>>
    /\ now - sent[Len(sent)].timestamp > Second
    /\ last_command = "start_ok"

\* C11: no callback of the editor thread makes a call to the tracking
\* service: the last editor callback is never one that returned the result of
\* a create_bucket_simple call it made itself.
C11_NoServiceCallOnEditorThread ==
    outcome \notin {"create_bucket: ok", "create_bucket: err"}

\* C12: once the Error Signal callback has processed a delivery fault, and as
\* long as no Start has been invoked since (the editor thread is still inside
\* that callback), connected is false: emission stays disabled, whatever
\* thread of an earlier Start is still to run.
C12_NoEmissionAfterFaultUntilStart ==
    (istate = "in_callback" /\ notified # <<>>) => ~connected

\* C13: neither the Stop command nor the thread it spawns removes an event
\* from the Dispatch Channel or changes last_heartbeat or the last recorded
\* triple; and every event enqueued by the time a Stop is the latest command
\* is eventually handed to the heartbeat call by the worker.
C13_StopKeepsQueuedEvents ==
    /\ [][stop_command \/ stop_thread =>
            UNCHANGED <<event_channel, sent, last_heartbeat, triple>>]_vars
    /\ \A n \in 1..MaxEvents :
           (last_command = "stop" /\ Len(sent) >= n)
               ~> (Len(attempted) >= n /\ attempted[n] = sent[n])

C13_Witness ==
    /\ last_command = "stop"
    /\ spawned.stop = 0
    /\ ~connected
    /\ Len(event_channel) = 2
    /\ wstate = "Idle"

\* C14: last_heartbeat changes only in a step that enqueues an event and
\* records that event's triple; every other step leaves it unchanged.
C14_LastHeartbeatChangesOnlyOnEmit ==
    [][last_heartbeat' # last_heartbeat =>
         /\ Len(sent') = Len(sent) + 1
         /\ triple' = EventTriple(sent'[Len(sent')])]_vars

\* C15: every invocation of the Error Signal callback terminates: whenever
\* the editor thread is inside the callback, it eventually is idle again and
\* can run the next callback.
C15_CallbackReturns ==
    (istate = "in_callback") ~> (istate = "idle")

\* C16: no step of the worker (receive, heartbeat call, error send, wake-up,
\* end of the loop) changes any field of GLOBALS; and the step that takes a
\* delivery error out of the error channel and clears connected is taken by
\* the editor thread inside the Error Signal callback.
C16_WorkerLeavesGlobalsAlone ==
    /\ [][WorkerShutdown => UNCHANGED globals]_vars
    /\ [][wstate' # wstate => UNCHANGED globals]_vars
    /\ [][Len(error_channel') < Len(error_channel) =>
            /\ istate = "in_callback"
            /\ wstate' = wstate
            /\ ~connected']_vars

C16_Witness ==
    /\ Len(results) >= 1
    /\ ~results[1]
    /\ wstate = "Stopped"
    /\ connected
    /\ notified = <<>>

\* C17: from a state in which connected is false, or at most one second has
\* passed since last_heartbeat, no step returns a resolution error to the
\* editor, whatever the host queries of a signal would give (failures
\* included): a signal handled there returns on the disconnected or the
\* too-soon path, and last_heartbeat, the triple and the events sent stay as
\* they are.
C17_ChecksBeforeResolution ==
    [][(~connected \/ Elapsed <= Second) =>
         /\ (outcome' # outcome => outcome' \notin {"error", "unchanged", "emit"})
         /\ UNCHANGED <<last_heartbeat, triple, sent>>]_vars

C17_Witness ==
    /\ outcome = "too_soon"
    /\ connected
    /\ Elapsed = Second
    /\ sent # <<>>

\* C18: a signal handled while connected, more than one second after
\* last_heartbeat, whose file, working-directory or language query fails,
\* returns the error to the editor, enqueues no event, leaves connected and
\* the last recorded triple as they were, and leaves the editor thread free
\* for the next callback.
C18_ResolveErrorReturnedNothingEnqueued ==
    [][(connected /\ Elapsed > Second) =>
         \A f \in FileResults, p \in ProjectResults, l \in LanguageResults :
             (ResolveError \in {f, p, l} /\ trigger_heartbeat(f, p, l))
             => /\ outcome' = "error"
                /\ UNCHANGED <<connected, triple, event_channel, sent>>
                /\ istate' = "idle"]_vars

C18_Witness ==
    /\ outcome = "error"
    /\ connected
    /\ sent # <<>>
    /\ triple = EventTriple(sent[Len(sent)])
    /\ last_heartbeat > sent[Len(sent)].timestamp

\* C19: the worker moves Idle -> Delivering on a received event, Delivering
\* -> Idle on a successful call, Delivering -> SignalingError on a failed
\* one, and SignalingError -> Waking -> Idle when the error channel accepts
\* the error; it moves to Stopped only from Idle with the Dispatch Channel
\* empty and its senders dropped, or from SignalingError with the error
\* receiver dropped; a step in which the error channel accepts an error does
\* not stop the worker; Stopped is final.
C19_WorkerStateMachine ==
    /\ [][wstate' # wstate =>
            <<wstate, wstate'>> \in
                {<<"Idle", "Delivering">>, <<"Delivering", "Idle">>,
                 <<"Delivering", "SignalingError">>,
                 <<"SignalingError", "Waking">>, <<"Waking", "Idle">>,
                 <<"Idle", "Stopped">>, <<"SignalingError", "Stopped">>}]_vars
    /\ [][(wstate = "Delivering" /\ wstate' # wstate) =>
            wstate' = IF results'[Len(results')] THEN "Idle"
                                                 ELSE "SignalingError"]_vars
    /\ [][(wstate # "Stopped" /\ wstate' = "Stopped") =>
            /\ istate = "exited"
            /\ wstate = "Idle" => event_channel = <<>>]_vars
    /\ [][Len(error_channel') > Len(error_channel) => wstate' = "Waking"]_vars

C19_Witness ==
    /\ wstate = "Stopped"
    /\ Len(results) = 2
    /\ ~results[1]
    /\ notified = <<1>>

\* C20: connected is false initially; in every state with connected true a
\* create_bucket_simple call has returned Ok before; and the only step that
\* turns connected from false to true is the run of a thread spawned by a
\* start_watcher whose bucket creation succeeded.
C20_ConnectedOnlyAfterBucketCreated ==
    /\ ~connected
    /\ [](connected => bucket_created)
    /\ [](spawned.start_ok > 0 => bucket_created)
    /\ [][(~connected /\ connected') =>
            /\ spawned.start_ok > 0
            /\ spawned' = [spawned EXCEPT !.start_ok = @ - 1]
            /\ UNCHANGED <<last_heartbeat, triple, event_channel, sent, worker,
                           errsig, istate, outcome, last_command>>]_vars

C20_Witness ==
    /\ connected
    /\ bucket_created
    /\ last_command = "start_ok"
    /\ spawned.start_ok = 0
    /\ Len(sent) = 1

====
